---------------------------- MODULE Spec2Model ----------------------------
(***************************************************************************)
(* Model of ytar (src/src/lib.rs): the tar header decoder (InnerHeader)    *)
(* and the streaming reader (TarReader) over an io::Read byte source.      *)
(*                                                                         *)
(* Numbers.  u64 and usize values (usize is taken as 64 bits wide) are     *)
(* kept as four 16-bit limbs, least significant first, because the model   *)
(* checker's integers are 32 bits wide.  Bytes are integers 0..255.        *)
(***************************************************************************)
EXTENDS Integers, Sequences, FiniteSets, TLC

\* ------------------------------------------------------------------------
\* 64-bit unsigned arithmetic on limbs
\* ------------------------------------------------------------------------

\* Two bytes per limb.
LimbBase == 256 * 256

U64Zero == <<0, 0, 0, 0>>

\* k is a model integer, 0 <= k < 2^31.
U64FromInt(k) == <<k % LimbBase, k \div LimbBase, 0, 0>>

U64IsSmall(x) == x[3] = 0 /\ x[4] = 0 /\ x[2] < 128 * 256

\* Defined for U64IsSmall(x).
U64ToInt(x) == x[1] + LimbBase * x[2]

\* x <= y
U64Le(x, y) ==
    \/ x[4] < y[4]
    \/ x[4] = y[4] /\ x[3] < y[3]
    \/ x[4] = y[4] /\ x[3] = y[3] /\ x[2] < y[2]
    \/ x[4] = y[4] /\ x[3] = y[3] /\ x[2] = y[2] /\ x[1] <= y[1]

\* x / d, integer division, 1 <= d < 2^15.
U64DivSmall(x, d) ==
    LET q4 == x[4] \div d
        r4 == x[4] % d
        t3 == r4 * LimbBase + x[3]
        q3 == t3 \div d
        r3 == t3 % d
        t2 == r3 * LimbBase + x[2]
        q2 == t2 \div d
        r2 == t2 % d
        t1 == r2 * LimbBase + x[1]
        q1 == t1 \div d
    IN  <<q1, q2, q3, q4>>

\* x % d, 1 <= d < 2^15.
U64ModSmall(x, d) ==
    LET r4 == x[4] % d
        r3 == (r4 * LimbBase + x[3]) % d
        r2 == (r3 * LimbBase + x[2]) % d
    IN  (r2 * LimbBase + x[1]) % d

\* x * m + a with 0 <= m, a < 2^14: the low 64 bits in v, and whether the
\* exact result did not fit in carry.
U64MulAdd(x, m, a) ==
    LET p1 == x[1] * m + a
        p2 == x[2] * m + (p1 \div LimbBase)
        p3 == x[3] * m + (p2 \div LimbBase)
        p4 == x[4] * m + (p3 \div LimbBase)
    IN  [v     |-> <<p1 % LimbBase, p2 % LimbBase, p3 % LimbBase, p4 % LimbBase>>,
         carry |-> (p4 \div LimbBase) # 0]

U64SubNone(x, y) == x

\* x - y for y <= x.
U64Sub(x, y) ==
    LET d1 == x[1] - y[1]
        b1 == IF d1 < 0 THEN 1 ELSE 0
        d2 == x[2] - y[2] - b1
        b2 == IF d2 < 0 THEN 1 ELSE 0
        d3 == x[3] - y[3] - b2
        b3 == IF d3 < 0 THEN 1 ELSE 0
        d4 == x[4] - y[4] - b3
    IN  <<d1 + b1 * LimbBase, d2 + b2 * LimbBase, d3 + b3 * LimbBase, d4>>

\* cmp::min(x, k) for a usize x and a small integer k; the result is small.
MinUsize(x, k) == IF U64Le(x, U64FromInt(k)) THEN U64ToInt(x) ELSE k

\* ------------------------------------------------------------------------
\* Byte values named in the source
\* ------------------------------------------------------------------------
NUL == 0
SPACE == 32
PLUS == 43
DIGIT0 == 48
HIGHBIT == 128
BLOCK == 512

\* ------------------------------------------------------------------------
\* InnerHeader::size and its helpers.  A size field is a sequence of 12
\* bytes.  A call either returns a u64 or panics (assert!/expect).
\* ------------------------------------------------------------------------
Val(v) == [panic |-> FALSE, msg |-> "", v |-> v]
Panic(m) == [panic |-> TRUE, msg |-> m, v |-> U64Zero]

from_le_bytes_be(b) ==
    << b[8] + 256 * b[7], b[6] + 256 * b[5], b[4] + 256 * b[3], b[2] + 256 * b[1] >>

\* u64::from_le_bytes on 8 bytes.
from_le_bytes(b) ==
    << b[1] + 256 * b[2], b[3] + 256 * b[4], b[5] + 256 * b[6], b[7] + 256 * b[8] >>

size_binary(sz) ==
    IF sz[1] = HIGHBIT /\ sz[2] = 0 /\ sz[3] = 0 /\ sz[4] = 0
    THEN Val(from_le_bytes(SubSeq(sz, 5, 12)))
    ELSE Panic("size too big")

\* char::to_digit for a radix of at most 10: -1 stands for None.
to_digit(c, radix) == IF c >= DIGIT0 /\ c < DIGIT0 + radix THEN c - DIGIT0 ELSE -1

\* The digit loop of u64::from_str_radix: checked multiply and add.
RECURSIVE ParseDigits(_, _, _, _)
ParseDigits(s, i, radix, acc) ==
    IF i > Len(s) THEN [ok |-> TRUE, v |-> acc]
    ELSE LET d == to_digit(s[i], radix)
             m == U64MulAdd(acc, radix, IF d < 0 THEN 0 ELSE d)
         IN  IF d < 0 \/ m.carry THEN [ok |-> FALSE, v |-> U64Zero]
             ELSE ParseDigits(s, i + 1, radix, m.v)

\* u64::from_str_radix: an optional leading '+', then at least one digit.
from_str_radix(s, radix) ==
    LET digits == IF Len(s) > 0 /\ s[1] = PLUS THEN Tail(s) ELSE s
    IN  IF Len(digits) = 0 THEN [ok |-> FALSE, v |-> U64Zero]
        ELSE ParseDigits(digits, 1, radix, U64Zero)

\* std::str::from_utf8 on the 11 bytes.  Every byte below 0x80 is valid; a
\* byte at or above 0x80 either makes the slice invalid UTF-8 or is part of
\* a multi-byte character that from_str_radix then rejects: both panic, and
\* the model reports the first.
from_utf8_ok(s) == \A i \in 1..Len(s) : s[i] < HIGHBIT

size_octal_decimal(sz) ==
    IF sz[12] # SPACE THEN Panic("invalid size field, badly terminated")
    ELSE IF ~from_utf8_ok(SubSeq(sz, 1, 11))
         THEN Panic("invalid size field, not valid ascii")
         ELSE LET r == from_str_radix(SubSeq(sz, 1, 11), 10)
              IN  IF r.ok THEN Val(r.v)
                  ELSE Panic("invalid size field, not an octal number")

size_octal(sz) ==
    IF sz[12] # SPACE THEN Panic("invalid size field, badly terminated")
    ELSE IF ~from_utf8_ok(SubSeq(sz, 1, 11))
         THEN Panic("invalid size field, not valid ascii")
         ELSE LET r == from_str_radix(SubSeq(sz, 1, 11), 8)
              IN  IF r.ok THEN Val(r.v)
                  ELSE Panic("invalid size field, not an octal number")

\* Which of the two schemes size() runs.
size_scheme(sz) == IF sz[1] >= HIGHBIT THEN "binary" ELSE "octal"

size(sz) == IF size_scheme(sz) = "binary" THEN size_binary(sz) ELSE size_octal(sz)

\* ------------------------------------------------------------------------
\* blocks
\* ------------------------------------------------------------------------
blocks(n) ==
    IF n = U64Zero THEN U64Zero
    ELSE U64MulAdd(U64DivSmall(n, BLOCK), 1, 1).v

\* ------------------------------------------------------------------------
\* TypeFlag: a named variant, or Other carrying a byte
\* ------------------------------------------------------------------------
Named(t) == [tag |-> t, x |-> 0]
Other(o) == [tag |-> "Other", x |-> o]

from_u8_swapped(x) ==
    CASE x = 48 \/ x = 0 -> Named("Regular")
      [] x = 49 -> Named("HardLink")
      [] x = 50 -> Named("SymbolicLink")
      [] x = 51 -> Named("CharacterDevice")
      [] x = 52 -> Named("BlockDevice")
      [] x = 53 -> Named("FIFO")
      [] x = 54 -> Named("Directory")
      [] x = 120 -> Named("PaxNextFile")
      [] x = 103 -> Named("PaxFollowingFiles")
      [] OTHER -> Other(x)

from_u8(x) ==
    CASE x = 48 \/ x = 0 -> Named("Regular")
      [] x = 49 -> Named("HardLink")
      [] x = 50 -> Named("SymbolicLink")
      [] x = 51 -> Named("CharacterDevice")
      [] x = 52 -> Named("BlockDevice")
      [] x = 53 -> Named("Directory")
      [] x = 54 -> Named("FIFO")
      [] x = 120 -> Named("PaxNextFile")
      [] x = 103 -> Named("PaxFollowingFiles")
      [] OTHER -> Other(x)

to_u8(t) ==
    CASE t.tag = "Regular" -> 48
      [] t.tag = "HardLink" -> 49
      [] t.tag = "SymbolicLink" -> 50
      [] t.tag = "CharacterDevice" -> 51
      [] t.tag = "BlockDevice" -> 52
      [] t.tag = "Directory" -> 53
      [] t.tag = "FIFO" -> 54
      [] t.tag = "PaxNextFile" -> 120
      [] t.tag = "PaxFollowingFiles" -> 103
      [] t.tag = "Other" -> t.x

\* InnerHeader::typeflag
typeflag(h) == from_u8(h.typeflag)


\* ------------------------------------------------------------------------
\* InnerHeader: the 512-byte record and its field offsets (repr(packed), so
\* each field starts where the previous one ends).
\* ------------------------------------------------------------------------
NAME_LEN == 100
SIZE_LEN == 12
PREFIX_LEN == 155
OFF_NAME == 0
OFF_SIZE == 100 + 8 + 8 + 8
OFF_TYPEFLAG == OFF_SIZE + 12 + 12 + 8
OFF_PREFIX == OFF_TYPEFLAG + 1 + 100 + 6 + 2 + 32 + 32 + 8 + 8

trim_slice(x) ==
    IF \E i \in 1..Len(x) : x[i] = NUL
    THEN LET pos0 == CHOOSE i \in 1..Len(x) :
                         x[i] = NUL /\ \A j \in 1..(i - 1) : x[j] # NUL
         IN  SubSeq(x, 1, pos0 - 1)
    ELSE x

full_name(h) == trim_slice(h.prefix) \o <<47>> \o trim_slice(h.name)

path_by_name(h) == IF h.name[1] = NUL THEN trim_slice(h.name) ELSE full_name(h)

path(h) == IF h.prefix[1] = NUL THEN trim_slice(h.name) ELSE full_name(h)

\* ------------------------------------------------------------------------
\* The byte source (the R: io::Read the reader owns): an archive, a
\* sequence of 512-byte blocks of which the first len bytes exist, and a
\* cursor.  A block is a header (its four modelled fields NUL-padded, every
\* other byte NUL) or 512 copies of one byte.
\* ------------------------------------------------------------------------
Field(f, i) == IF i < Len(f) THEN f[i + 1] ELSE NUL

ByteOfBlock(b, off) ==
    IF b.kind = "fill" THEN b.fill
    ELSE IF off < OFF_NAME + NAME_LEN THEN Field(b.name, off - OFF_NAME)
    ELSE IF off >= OFF_SIZE /\ off < OFF_SIZE + SIZE_LEN THEN Field(b.size, off - OFF_SIZE)
    ELSE IF off = OFF_TYPEFLAG THEN b.typeflag
    ELSE IF off >= OFF_PREFIX /\ off < OFF_PREFIX + PREFIX_LEN
         THEN Field(b.prefix, off - OFF_PREFIX)
    ELSE NUL

\* The byte at offset i (from 0) of archive a.
ByteAt(a, i) == ByteOfBlock(a.blocks[(i \div BLOCK) + 1], i % BLOCK)

\* zerocopy::transmute!(buf) for the 512 bytes that start at offset p.
HeaderAt(a, p) ==
    [name     |-> [i \in 1..NAME_LEN |-> ByteAt(a, p + OFF_NAME + i - 1)],
     size     |-> [i \in 1..SIZE_LEN |-> ByteAt(a, p + OFF_SIZE + i - 1)],
     typeflag |-> ByteAt(a, p + OFF_TYPEFLAG),
     prefix   |-> [i \in 1..PREFIX_LEN |-> ByteAt(a, p + OFF_PREFIX + i - 1)]]

\* ------------------------------------------------------------------------
\* Archives the source may hold
\* ------------------------------------------------------------------------

\* The 11 octal digits of v, most significant first, then a space.
RECURSIVE OctDigits(_, _)
OctDigits(v, k) ==
    IF k = 0 THEN <<>>
    ELSE Append(OctDigits(U64DivSmall(v, 8), k - 1), DIGIT0 + U64ModSmall(v, 8))

encode_octal(v) == Append(OctDigits(v, SIZE_LEN - 1), SPACE)

to_le_bytes(v) ==
    << v[1] % 256, v[1] \div 256, v[2] % 256, v[2] \div 256,
       v[3] % 256, v[3] \div 256, v[4] % 256, v[4] \div 256 >>

encode_binary(v) == <<HIGHBIT, 0, 0, 0>> \o to_le_bytes(v)

U64Max == <<LimbBase - 1, LimbBase - 1, LimbBase - 1, LimbBase - 1>>

Hdr(name, prefix, sz) ==
    [kind |-> "hdr", name |-> name, prefix |-> prefix, size |-> sz,
     typeflag |-> DIGIT0, fill |-> NUL]
Fill(b) ==
    [kind |-> "fill", name |-> <<>>, prefix |-> <<>>, size |-> <<>>,
     typeflag |-> NUL, fill |-> b]
ZeroBlock == Fill(NUL)

\* Size fields the decoder does not accept as 11 octal digits and a space,
\* or as the 0x80 marker with three zero bytes.
NulTerminated == [encode_octal(U64FromInt(1)) EXCEPT ![SIZE_LEN] = NUL]
NotOctal == [encode_octal(U64FromInt(1)) EXCEPT ![5] = DIGIT0 + 8]
SpacePadded == [encode_octal(U64FromInt(1)) EXCEPT ![1] = SPACE]
PlusSigned == [encode_octal(U64FromInt(1)) EXCEPT ![1] = PLUS]
NotAscii == [encode_octal(U64FromInt(1)) EXCEPT ![3] = HIGHBIT + 1]
BadMarker == [encode_binary(U64FromInt(1)) EXCEPT ![1] = HIGHBIT + 1]
BadReserved == [encode_binary(U64FromInt(1)) EXCEPT ![3] = 1]
MalformedSizes ==
    {NulTerminated, NotOctal, SpacePadded, PlusSigned, NotAscii, BadMarker, BadReserved}

NameA == <<97>>
NameB == <<98>>
NameC == <<99>>
PrefixD == <<100>>

BlockLists ==
    { << Hdr(NameA, <<>>, encode_octal(U64FromInt(1))), Fill(65),
         Hdr(NameB, <<>>, encode_octal(U64Zero)), ZeroBlock, ZeroBlock >>,
      << Hdr(NameA, <<>>, encode_octal(U64FromInt(BLOCK))), Fill(65),
         Hdr(NameB, <<>>, encode_octal(U64Zero)),
         Hdr(NameC, <<>>, encode_octal(U64Zero)), ZeroBlock >>,
      << Hdr(NameA, <<>>, encode_binary(U64FromInt(BLOCK + 1))), Fill(65), Fill(66),
         Hdr(NameB, PrefixD, encode_octal(U64Zero)), ZeroBlock >>,
      << ZeroBlock, Hdr(NameA, <<>>, encode_octal(U64Zero)), ZeroBlock >>,
      << Hdr(NameA, <<>>, encode_binary(U64Max)), Fill(65) >> }
    \cup { << Hdr(NameA, <<>>, sz), ZeroBlock >> : sz \in MalformedSizes }

\* Where a source may end: at a block boundary or inside a block.
CutLens == {0, 100, BLOCK, BLOCK + 200, 2 * BLOCK, 2 * BLOCK + 300}

\* The block list whose truncations are tried.
CutList ==
    << Hdr(NameA, <<>>, encode_octal(U64FromInt(1))), Fill(65),
       Hdr(NameB, <<>>, encode_octal(U64Zero)), ZeroBlock, ZeroBlock >>

Archives ==
    { [blocks |-> bl, len |-> BLOCK * Len(bl)] : bl \in BlockLists }
    \cup { [blocks |-> CutList, len |-> n] : n \in CutLens }

\* ------------------------------------------------------------------------
\* State
\* ------------------------------------------------------------------------
VARIABLES
    archive,      \* the bytes the source holds
    pos,          \* the source's cursor: bytes consumed so far
    errs,         \* source reads that returned Err so far
    next_header,  \* TarReader.next_header
    data_left,    \* TarReader.data_left
    pc,           \* where the reader is: "idle" between calls, "skip" and
                  \* "fill" inside next, "panicked" after a panic
    bytes_read,   \* next's local: header bytes obtained so far
    res,          \* what the last call returned
    last,         \* the entry the last completed next call returned, if any
    prev,         \* the entry the next call before that one returned, if any
    got,          \* bytes read has returned since last was returned
    hdr_at,       \* where the last next call was to find its header block:
                  \* the cursor plus next_header when it was called; -1
                  \* before the first call
    fn_in,        \* argument of the pure function under check
    fn_out        \* its result

vars == << archive, pos, errs, next_header, data_left, pc, bytes_read, res,
           last, prev, got, hdr_at, fn_in, fn_out >>

reader_vars == << archive, pos, errs, next_header, data_left, pc, bytes_read, res,
                  last, prev, got, hdr_at >>

\* Bounds of the model.
MaxSrcErrs == 1
MaxBlocksArg == 1100

\* Lengths a caller passes to read, and the short counts the source may deliver
\* in place of the count asked for.
BufLens == {0, 300, 2 * BLOCK}
PartialLens == {100, BLOCK - 1}

NoEntry == [off |-> -1, path |-> <<>>, size |-> U64Zero, typeflag |-> NUL]
NoCall == [f |-> "none"]

Res(op, kind, stage, n, src) ==
    [op |-> op, kind |-> kind, stage |-> stage, n |-> n, src |-> src]

\* The counts an Ok from the source may carry for a buffer of req bytes: 0
\* for an empty buffer or at the end of the source, else 1..req, never past
\* the end.
SrcLens(req) ==
    IF req = 0 \/ pos = archive.len THEN {0}
    ELSE LET avail == IF req < archive.len - pos THEN req ELSE archive.len - pos
         IN  {avail} \cup {c \in PartialLens : c < avail}

SrcMayFail == errs < MaxSrcErrs

Init ==
    /\ archive \in Archives
    /\ pos = 0
    /\ errs = 0
    /\ next_header = U64Zero
    /\ data_left = U64Zero
    /\ pc = "idle"
    /\ bytes_read = 0
    /\ res = Res("new", "ok", "", 0, 0)
    /\ last = NoEntry
    /\ prev = NoEntry
    /\ got = 0
    /\ hdr_at = -1
    /\ fn_in = NoCall
    /\ fn_out = NoCall

\* next returns without an entry: Ok(None) or Err.
ReturnNoEntry(kind, stage) ==
    /\ pc' = "idle"
    /\ res' = Res("next", kind, stage, bytes_read, 1)
    /\ last' = NoEntry
    /\ prev' = NoEntry
    /\ got' = 0

\* A panic unwinds out of the reader.
PanicOut(op, stage) ==
    /\ pc' = "panicked"
    /\ res' = Res(op, "panic", stage, 0, 1)

\* What next returns when the source reports zero bytes: in the skip loop
\* (lines 169-174), on the first read of a header block (lines 181-185),
\* and on a later read of it (lines 188-193).
skip_read_zero_none == "none"

skip_read_zero == "unexpected_eof"

first_read_zero_err == "unexpected_eof"

first_read_zero == "none"

fill_read_zero_none == "none"

fill_read_zero == "unexpected_eof"

\* The skip loop's exit test (line 166).
skip_done_within_block(nh) == U64Le(nh, U64FromInt(BLOCK))

skip_done(nh) == nh = U64Zero

\* next is called (line 164).
CallNext ==
    /\ pc = "idle"
    /\ pc' = "skip"
    /\ bytes_read' = 0
    /\ hdr_at' = IF U64IsSmall(next_header) THEN pos + U64ToInt(next_header) ELSE -1
    /\ UNCHANGED << archive, pos, errs, next_header, data_left, res, last, prev, got,
                    fn_in, fn_out >>

\* One iteration of the skip loop (lines 166-177).
SkipRead ==
    /\ pc = "skip"
    /\ ~skip_done(next_header)
    /\ UNCHANGED << archive, data_left, bytes_read, hdr_at, fn_in, fn_out >>
    /\ \/ /\ SrcMayFail
          /\ errs' = errs + 1
          /\ ReturnNoEntry("io_err", "skip")
          /\ UNCHANGED << pos, next_header >>
       \/ \E n \in SrcLens(MinUsize(next_header, BLOCK)) :
            /\ n = 0
            /\ ReturnNoEntry(skip_read_zero, "skip")
            /\ UNCHANGED << pos, errs, next_header >>
       \/ \E n \in SrcLens(MinUsize(next_header, BLOCK)) :
            /\ n # 0
            /\ pos' = pos + n
            /\ next_header' = U64Sub(next_header, U64FromInt(n))
            /\ UNCHANGED << errs, pc, res, last, prev, got >>

\* The counters are reset and the first read of the header block is made
\* (lines 178-185).
HeaderFirstRead ==
    /\ pc = "skip"
    /\ skip_done(next_header)
    /\ next_header' = U64Zero
    /\ data_left' = U64Zero
    /\ UNCHANGED << archive, hdr_at, fn_in, fn_out >>
    /\ \/ /\ SrcMayFail
          /\ errs' = errs + 1
          /\ ReturnNoEntry("io_err", "header")
          /\ UNCHANGED << pos, bytes_read >>
       \/ \E n \in SrcLens(BLOCK) :
            /\ n = 0
            /\ bytes_read' = 0
            /\ ReturnNoEntry(first_read_zero, "header")
            /\ UNCHANGED << pos, errs >>
       \/ \E n \in SrcLens(BLOCK) :
            /\ n # 0
            /\ bytes_read' = n
            /\ pos' = pos + n
            /\ pc' = "fill"
            /\ UNCHANGED << errs, res, last, prev, got >>

\* One iteration of the loop that fills the header block (lines 186-195).
HeaderFillRead ==
    /\ pc = "fill"
    /\ bytes_read # BLOCK
    /\ UNCHANGED << archive, next_header, data_left, hdr_at, fn_in, fn_out >>
    /\ \/ /\ SrcMayFail
          /\ errs' = errs + 1
          /\ ReturnNoEntry("io_err", "header")
          /\ UNCHANGED << pos, bytes_read >>
       \/ \E n \in SrcLens(BLOCK - bytes_read) :
            /\ n = 0
            /\ ReturnNoEntry(fill_read_zero, "header")
            /\ UNCHANGED << pos, errs, bytes_read >>
       \/ \E n \in SrcLens(BLOCK - bytes_read) :
            /\ n # 0
            /\ bytes_read' = bytes_read + n
            /\ pos' = pos + n
            /\ UNCHANGED << errs, pc, res, last, prev, got >>

\* What lines 196-202 make of a complete header block: the end-of-archive
\* sentinel, a panic inside size(), or the entry's size with the product
\* blocks(size) * 512 (its low 64 bits, and whether it overflowed).
DecodeSizeFirst(header) ==
    LET s == size(header.size)
    IN  IF s.panic THEN [kind |-> "panic", size |-> U64Zero, skip |-> U64Zero, carry |-> FALSE]
        ELSE IF header.name[1] = NUL
        THEN [kind |-> "none", size |-> U64Zero, skip |-> U64Zero, carry |-> FALSE]
        ELSE LET m == U64MulAdd(blocks(s.v), BLOCK, 0)
             IN  [kind |-> "entry", size |-> s.v, skip |-> m.v, carry |-> m.carry]

DecodeHeader(header) ==
    IF header.name[1] = NUL
    THEN [kind |-> "none", size |-> U64Zero, skip |-> U64Zero, carry |-> FALSE]
    ELSE LET s == size(header.size)
         IN  IF s.panic
             THEN [kind |-> "panic", size |-> U64Zero, skip |-> U64Zero, carry |-> FALSE]
             ELSE LET m == U64MulAdd(blocks(s.v), BLOCK, 0)
                  IN  [kind |-> "entry", size |-> s.v, skip |-> m.v, carry |-> m.carry]

\* The header block is complete (lines 196-203).  An overflowing multiply
\* panics in a build with overflow checks and wraps in one without.
Decode ==
    /\ pc = "fill"
    /\ bytes_read = BLOCK
    /\ UNCHANGED << archive, pos, errs, bytes_read, hdr_at, fn_in, fn_out >>
    /\ LET header == HeaderAt(archive, pos - BLOCK)
           d == DecodeHeader(header)
       IN  \/ /\ d.kind = "none"
              /\ ReturnNoEntry("none", "decode")
              /\ UNCHANGED << next_header, data_left >>
           \/ /\ d.kind = "panic"
              /\ PanicOut("next", "decode")
              /\ last' = NoEntry
              /\ prev' = NoEntry
              /\ got' = 0
              /\ UNCHANGED << next_header, data_left >>
           \/ /\ d.kind = "entry"
              /\ d.carry
              /\ PanicOut("next", "decode")
              /\ last' = NoEntry
              /\ prev' = NoEntry
              /\ got' = 0
              /\ UNCHANGED << next_header, data_left >>
           \/ /\ d.kind = "entry"
              /\ next_header' = d.skip
              /\ data_left' = d.size
              /\ pc' = "idle"
              /\ res' = Res("next", "entry", "decode", BLOCK, 1)
              /\ prev' = last
              /\ last' = [off |-> pos - BLOCK, path |-> path(header), size |-> d.size,
                          typeflag |-> header.typeflag]
              /\ got' = 0

\* The length read passes to the source (line 209).
read_len_unbounded(buflen) == buflen

read_len(buflen) == MinUsize(data_left, buflen)

\* read (lines 207-217) with a buffer of buflen bytes: one read of the
\* source, the two assertions, the two subtractions.
Read ==
    /\ pc = "idle"
    /\ UNCHANGED << archive, bytes_read, hdr_at, fn_in, fn_out >>
    /\ \E buflen \in BufLens :
         \/ /\ SrcMayFail
            /\ errs' = errs + 1
            /\ res' = Res("read", "io_err", "", 0, 1)
            /\ UNCHANGED << pos, next_header, data_left, pc, last, prev, got >>
         \/ \E n \in SrcLens(read_len(buflen)) :
              /\ U64Le(U64FromInt(n), data_left)
              /\ U64Le(U64FromInt(n), next_header)
              /\ pos' = pos + n
              /\ data_left' = U64Sub(data_left, U64FromInt(n))
              /\ next_header' = U64Sub(next_header, U64FromInt(n))
              /\ res' = Res("read", "ok", "", n, 1)
              /\ got' = IF last = NoEntry THEN 0 ELSE got + n
              /\ UNCHANGED << errs, pc, last, prev >>
         \/ \E n \in SrcLens(read_len(buflen)) :
              /\ ~(U64Le(U64FromInt(n), data_left) /\ U64Le(U64FromInt(n), next_header))
              /\ pos' = pos + n
              /\ PanicOut("read", "")
              /\ UNCHANGED << errs, next_header, data_left, last, prev, got >>

Next ==
    \/ CallNext
    \/ SkipRead
    \/ HeaderFirstRead
    \/ HeaderFillRead
    \/ Decode
    \/ Read

Spec == Init /\ [][Next]_vars

\* A call of next, once made, keeps running: the statements of lines
\* 166-203 follow one another, and each read of the source returns.  With
\* a complete header block Decode is enabled and every step of it leaves
\* pc = "fill", so weak fairness of Decode is written as the reader not
\* staying at a complete header block for ever.
DecodeReady == pc = "fill" /\ bytes_read = BLOCK

NextRuns ==
    /\ WF_vars(SkipRead)
    /\ WF_vars(HeaderFirstRead)
    /\ WF_vars(HeaderFillRead)
    /\ []<>~DecodeReady

SpecRuns == Init /\ [][Next]_vars /\ NextRuns

\* ------------------------------------------------------------------------
\* Specifications that apply the pure functions to drawn arguments
\* ------------------------------------------------------------------------
MaxLimbSample == 40

LowLimbs == 0..MaxLimbSample \cup {BLOCK - 1, BLOCK, BLOCK + 1, 2 * BLOCK, LimbBase - 1}

\* Values of 11 octal digits: below 8^11 = 2^33.
OctalValues == { <<a, b, c, 0>> : a \in LowLimbs, b \in {0, 1, LimbBase - 1}, c \in {0, 1} }

BinaryValues ==
    { <<a, b, c, d>> : a \in LowLimbs, b \in {0, 1, LimbBase - 1}, c \in {0, LimbBase - 1},
                       d \in {0, 1, 128 * 256, LimbBase - 1} }

\* Well-formed fields with their first byte replaced.
FirstByteVariants ==
    { [encode_octal(U64FromInt(8)) EXCEPT ![1] = b] : b \in {1, HIGHBIT - 1} }
    \cup { [encode_binary(U64FromInt(8)) EXCEPT ![1] = b] : b \in {HIGHBIT + 64, 255} }

SizeInputs ==
    { [f |-> "size", enc |-> "octal", s |-> v, field |-> encode_octal(v)] : v \in OctalValues }
    \cup { [f |-> "size", enc |-> "binary", s |-> v, field |-> encode_binary(v)] :
             v \in BinaryValues }
    \cup { [f |-> "size", enc |-> "malformed", s |-> U64Zero, field |-> sz] :
             sz \in MalformedSizes \cup FirstByteVariants }

BlocksInputs ==
    { [f |-> "blocks", n |-> U64FromInt(k)] : k \in 0..MaxBlocksArg }
    \cup { [f |-> "blocks", n |-> v] : v \in {U64Max, <<0, 0, 1, 0>>} }

ReaderUnused ==
    /\ archive = [blocks |-> <<>>, len |-> 0]
    /\ pos = 0
    /\ errs = 0
    /\ next_header = U64Zero
    /\ data_left = U64Zero
    /\ pc = "unused"
    /\ bytes_read = 0
    /\ res = Res("new", "ok", "", 0, 0)
    /\ last = NoEntry
    /\ prev = NoEntry
    /\ got = 0
    /\ hdr_at = -1

InitSize == ReaderUnused /\ fn_in \in SizeInputs /\ fn_out = NoCall

ApplySize ==
    /\ fn_in.f = "size"
    /\ fn_out = NoCall
    /\ fn_out' = [f |-> "size", scheme |-> size_scheme(fn_in.field), r |-> size(fn_in.field)]
    /\ UNCHANGED << reader_vars, fn_in >>

SpecSize == InitSize /\ [][ApplySize]_vars

InitBlocks == ReaderUnused /\ fn_in \in BlocksInputs /\ fn_out = NoCall

ApplyBlocks ==
    /\ fn_in.f = "blocks"
    /\ fn_out = NoCall
    /\ fn_out' = [f |-> "blocks", v |-> blocks(fn_in.n)]
    /\ UNCHANGED << reader_vars, fn_in >>

SpecBlocks == InitBlocks /\ [][ApplyBlocks]_vars

\* Headers for path(): names and prefixes of up to MaxFieldText bytes drawn
\* from NUL, 'a' and '/', NUL-padded to the field; a name and a prefix that
\* fill their fields; and the prefix "usr/local" with the name "bin/tool".
MaxFieldText == 3

Pad(s, n) == [i \in 1..n |-> IF i <= Len(s) THEN s[i] ELSE NUL]

Texts(k) == UNION { [1..m -> {NUL, 97, 47}] : m \in 0..k }

UsrLocal == <<117, 115, 114, 47, 108, 111, 99, 97, 108>>
BinTool == <<98, 105, 110, 47, 116, 111, 111, 108>>

NameFields ==
    { Pad(t, NAME_LEN) : t \in Texts(MaxFieldText) }
    \cup { [i \in 1..NAME_LEN |-> 97], Pad(BinTool, NAME_LEN) }

PrefixFields ==
    { Pad(t, PREFIX_LEN) : t \in Texts(MaxFieldText - 1) }
    \cup { [i \in 1..PREFIX_LEN |-> 98], Pad(UsrLocal, PREFIX_LEN) }

PathInputs ==
    { [f |-> "path", h |-> [name |-> n, prefix |-> p]] : n \in NameFields, p \in PrefixFields }

InitPath == ReaderUnused /\ fn_in \in PathInputs /\ fn_out = NoCall

ApplyPath ==
    /\ fn_in.f = "path"
    /\ fn_out = NoCall
    /\ fn_out' = [f |-> "path", v |-> path(fn_in.h)]
    /\ UNCHANGED << reader_vars, fn_in >>

SpecPath == InitPath /\ [][ApplyPath]_vars

\* Every value of the typeflag byte.
TypeFlagInputs == { [f |-> "typeflag", h |-> [typeflag |-> b]] : b \in 0..255 }

InitTypeFlag == ReaderUnused /\ fn_in \in TypeFlagInputs /\ fn_out = NoCall

ApplyTypeFlag ==
    /\ fn_in.f = "typeflag"
    /\ fn_out = NoCall
    /\ fn_out' = [f |-> "typeflag", v |-> typeflag(fn_in.h),
                  back |-> to_u8(typeflag(fn_in.h)),
                  again |-> from_u8(to_u8(typeflag(fn_in.h)))]
    /\ UNCHANGED << reader_vars, fn_in >>

SpecTypeFlag == InitTypeFlag /\ [][ApplyTypeFlag]_vars

\* ------------------------------------------------------------------------
\* Properties
\* ------------------------------------------------------------------------

\* ceil(n / 512) for a model integer n.
CeilBlocks(n) == (n + BLOCK - 1) \div BLOCK

\* C1: blocks(n) is the ceiling of n/512: blocks(0) = 0, and for n > 0
\* blocks(n)*512 >= n and blocks(n)*512 < n + 512, exact multiples of 512
\* included.
C1_BlocksIsCeil ==
    (fn_out.f = "blocks" /\ U64IsSmall(fn_in.n)) =>
        LET n == U64ToInt(fn_in.n)
            b == U64ToInt(fn_out.v)
        IN  /\ n = 0 => b = 0
            /\ n > 0 => b * BLOCK >= n /\ b * BLOCK < n + BLOCK

\* C2: when a next call returns an entry and the next call before it
\* returned an entry of size n whose header began at offset h, the header
\* just decoded is the block at h + 512 + ceil(n/512)*512, and the path and
\* size returned are those of that block.
C2_SecondHeaderFollowsBody ==
    (pc = "idle" /\ res.op = "next" /\ res.kind = "entry" /\ prev # NoEntry
       /\ U64IsSmall(prev.size)) =>
        LET expected == prev.off + BLOCK + CeilBlocks(U64ToInt(prev.size)) * BLOCK
        IN  /\ last.off = expected
            /\ last.path = path(HeaderAt(archive, expected))
            /\ last.size = size(HeaderAt(archive, expected).size).v

\* C3: from the return of an entry of size n until next is called again,
\* read has returned at most n bytes in total and the source's cursor is
\* not past the end of the entry's body.
C3_ReadStaysInBody ==
    (last # NoEntry /\ pc \in {"idle", "panicked"}) =>
        /\ U64Le(U64FromInt(got), last.size)
        /\ pos >= last.off + BLOCK
        /\ U64Le(U64FromInt(pos - (last.off + BLOCK)), last.size)

\* The whole body of an entry longer than a block was read in several
\* reads, and a further read returned 0.
C3_Witness ==
    /\ pc = "idle"
    /\ last # NoEntry
    /\ got > BLOCK
    /\ last.size = U64FromInt(got)
    /\ res.op = "read" /\ res.kind = "ok" /\ res.n = 0

\* C4: with nothing left to skip, a source that returns zero bytes on the
\* first read of the header block makes next return Ok(None).
C4_EndAtHeaderBoundary ==
    [][(pc = "skip" /\ next_header = U64Zero /\ pos' = pos /\ errs' = errs)
         => (pc' = "idle" /\ res'.op = "next" /\ res'.kind = "none")]_vars

\* next returned Ok(None) because a source holding whole blocks ended.
C4_Witness ==
    /\ res.op = "next" /\ res.kind = "none" /\ res.stage = "header"
    /\ pos = archive.len /\ pos >= 2 * BLOCK

\* C5: a source that returns zero bytes while next is skipping, or after
\* 1..511 bytes of the header block, makes next return the
\* unexpected-end-of-archive error.
C5_EndMidSkipOrHeader ==
    [][((\/ pc = "skip" /\ next_header # U64Zero
         \/ pc = "fill" /\ bytes_read \in 1..(BLOCK - 1))
        /\ pos' = pos /\ errs' = errs)
         => (pc' = "idle" /\ res'.op = "next" /\ res'.kind = "unexpected_eof")]_vars

\* next failed after part of a header block, having skipped the rest of the
\* previous entry first.
C5_Witness ==
    /\ res.op = "next" /\ res.kind = "unexpected_eof" /\ res.stage = "header"
    /\ res.n \in 1..(BLOCK - 1)
    /\ pos = archive.len /\ pos > BLOCK

\* C6: a complete header block whose first name byte is NUL makes next
\* return Ok(None) without another read of the source, without decoding the
\* block's size field, and with both counters zero.
C6_NulNameEndsArchive ==
    [][(pc = "fill" /\ bytes_read = BLOCK /\ HeaderAt(archive, pos - BLOCK).name[1] = NUL)
         => /\ pc' = "idle" /\ res'.op = "next" /\ res'.kind = "none"
            /\ pos' = pos /\ errs' = errs
            /\ next_header' = U64Zero /\ data_left' = U64Zero]_vars

\* Ok(None) for a NUL-name block whose size field size() would not accept,
\* with blocks of the source still unread.
C6_Witness ==
    /\ res.op = "next" /\ res.kind = "none" /\ res.stage = "decode"
    /\ pos + BLOCK <= archive.len
    /\ size(HeaderAt(archive, pos - BLOCK).size).panic

\* A size field that is neither 11 octal digits and a space nor the 0x80
\* marker with three zero bytes.
MalformedSizeField(sz) ==
    IF sz[1] >= HIGHBIT
    THEN ~(sz[1] = HIGHBIT /\ sz[2] = 0 /\ sz[3] = 0 /\ sz[4] = 0)
    ELSE \/ sz[SIZE_LEN] # SPACE
         \/ \E i \in 1..(SIZE_LEN - 1) : sz[i] < DIGIT0 \/ sz[i] > DIGIT0 + 7

\* C7: a header with a non-NUL name and a malformed size field makes next
\* return an error; next does not panic and does not return an entry.
C7_MalformedSizeIsError ==
    [][(pc = "fill" /\ bytes_read = BLOCK
        /\ HeaderAt(archive, pos - BLOCK).name[1] # NUL
        /\ MalformedSizeField(HeaderAt(archive, pos - BLOCK).size))
         => (pc' = "idle" /\ res'.op = "next" /\ res'.kind = "decode_err")]_vars

\* C8: with data_left at 0, read returns Ok(0) without a read of the
\* source, without error and with both counters unchanged.
C8_ReadAtZeroLeavesSource ==
    [][(pc = "idle" /\ pc' # "skip" /\ data_left = U64Zero /\ res'.op = "read")
         => /\ res'.kind = "ok" /\ res'.n = 0 /\ res'.src = 0
            /\ errs' = errs /\ pos' = pos
            /\ next_header' = next_header /\ data_left' = data_left]_vars

\* C9: size() of the 11 octal digits of s and a space is s.
C9_OctalRoundTrip ==
    (fn_out.f = "size" /\ fn_in.enc = "octal") => fn_out.r = Val(fn_in.s)

\* size() was applied to the encoding of 8^11 - 1.
C9_Witness ==
    /\ fn_out.f = "size" /\ fn_in.enc = "octal"
    /\ fn_in.s = <<LimbBase - 1, LimbBase - 1, 1, 0>>
    /\ ~fn_out.r.panic

\* C10: size() of 0x80, three zero bytes and the 8 little-endian bytes of n
\* is n, and the binary scheme runs exactly when byte 0 has its high bit set.
C10_BinaryDecode ==
    fn_out.f = "size" =>
        /\ fn_in.enc = "binary" => fn_out.r = Val(fn_in.s)
        /\ fn_out.scheme = "binary" <=> (fn_in.field[1] \div HIGHBIT) % 2 = 1

\* size() was applied to the binary encoding of a value whose eight bytes
\* all differ in weight: 2^64 - 2^16 + 1.
C10_Witness ==
    /\ fn_out.f = "size" /\ fn_in.enc = "binary"
    /\ fn_in.s = <<1, LimbBase - 1, LimbBase - 1, LimbBase - 1>>
    /\ fn_out.scheme = "binary" /\ ~fn_out.r.panic

\* The bytes of f before its first NUL; all of f when it holds none.
BeforeNul(f) ==
    LET k == CHOOSE n \in 0..Len(f) :
                 /\ \A i \in 1..n : f[i] # NUL
                 /\ n < Len(f) => f[n + 1] = NUL
    IN  [i \in 1..k |-> f[i]]

\* C11: path() is trimmed(prefix) + "/" + trimmed(name) when byte 0 of the
\* prefix is not NUL and trimmed(name) otherwise, a field without a NUL
\* being used in full; prefix "usr/local" and name "bin/tool" give
\* "usr/local/bin/tool".
C11_PathAssembly ==
    fn_out.f = "path" =>
        LET h == fn_in.h
        IN  /\ h.prefix[1] # NUL =>
                 fn_out.v = BeforeNul(h.prefix) \o <<47>> \o BeforeNul(h.name)
            /\ h.prefix[1] = NUL => fn_out.v = BeforeNul(h.name)
            /\ (\A i \in 1..NAME_LEN : h.name[i] # NUL) /\ h.prefix[1] = NUL
                 => fn_out.v = h.name
            /\ h.prefix = Pad(UsrLocal, PREFIX_LEN) /\ h.name = Pad(BinTool, NAME_LEN)
                 => fn_out.v = UsrLocal \o <<47>> \o BinTool

\* path() was applied to a prefix that fills its 155 bytes and a name that
\* fills its 100 bytes.
C11_Witness ==
    /\ fn_out.f = "path"
    /\ \A i \in 1..PREFIX_LEN : fn_in.h.prefix[i] # NUL
    /\ \A i \in 1..NAME_LEN : fn_in.h.name[i] # NUL
    /\ Len(fn_out.v) = PREFIX_LEN + 1 + NAME_LEN

KnownTypeBytes == {0, 48, 49, 50, 51, 52, 53, 54, 103, 120}

\* C12: typeflag() maps every byte: '0' to Regular, '5' to Directory, 'x'
\* to PaxNextFile, 'g' to PaxFollowingFiles and so on, every other byte to
\* Other carrying it; to_u8 of a named type decodes back to that type, and
\* to_u8 of Regular is '0'.
C12_TypeFlagTotal ==
    fn_out.f = "typeflag" =>
        LET b == fn_in.h.typeflag
            t == fn_out.v
        IN  /\ b \in {0, 48} <=> t = Named("Regular")
            /\ b = 49 <=> t = Named("HardLink")
            /\ b = 50 <=> t = Named("SymbolicLink")
            /\ b = 51 <=> t = Named("CharacterDevice")
            /\ b = 52 <=> t = Named("BlockDevice")
            /\ b = 53 <=> t = Named("Directory")
            /\ b = 54 <=> t = Named("FIFO")
            /\ b = 120 <=> t = Named("PaxNextFile")
            /\ b = 103 <=> t = Named("PaxFollowingFiles")
            /\ b \notin KnownTypeBytes <=> t = Other(b)
            /\ t.tag # "Other" => fn_out.again = t
            /\ t = Named("Regular") => fn_out.back = 48
            /\ t.tag = "Other" => fn_out.back = b

\* typeflag() was applied to 'Z', which is no known type.
C12_Witness ==
    /\ fn_out.f = "typeflag" /\ fn_in.h.typeflag = 90
    /\ fn_out.v = Other(90)

\* C13: whenever next or read has returned, with success or with an error,
\* data_left (body_left) is at most next_header (pending_skip).
C13_BodyLeftWithinSkip ==
    pc = "idle" => U64Le(data_left, next_header)

\* A step in which next reads bytes of a header block, or asks for them and
\* returns.
HeaderReadStep ==
    \/ pc = "skip" /\ pc' = "fill"
    \/ pc = "fill" /\ bytes_read' # bytes_read
    \/ pc \in {"skip", "fill"} /\ pc' = "idle" /\ res'.stage = "header"

\* C14: a read of header-block bytes is issued only when next_header
\* (pending_skip) is 0.
C14_HeaderReadAtZeroSkip ==
    [][HeaderReadStep => next_header = U64Zero]_vars

\* A header block is being filled after the skip loop passed over the whole
\* body and padding of an entry whose body was never read.
C14_Witness ==
    /\ pc = "fill"
    /\ last # NoEntry /\ last.size # U64Zero /\ got = 0
    /\ pos > last.off + BLOCK
    /\ next_header = U64Zero

\* C15: apart from the decode of a complete header block, no step increases
\* next_header or data_left; a read that returns n bytes lowers both by
\* exactly n; data_left changes otherwise only when it is reset to zero
\* before a header read, and next_header only in the skip loop.
C15_CountersOnlyDecrease ==
    [][~(pc = "fill" /\ bytes_read = BLOCK) =>
          /\ U64Le(next_header', next_header)
          /\ U64Le(data_left', data_left)
          /\ (pc = "idle" /\ pc' = "idle" /\ res'.op = "read" /\ res'.kind = "ok") =>
                /\ pos' - pos = res'.n
                /\ U64MulAdd(next_header', 1, res'.n) = [v |-> next_header, carry |-> FALSE]
                /\ U64MulAdd(data_left', 1, res'.n) = [v |-> data_left, carry |-> FALSE]
          /\ (pc # "idle" /\ data_left' # data_left) =>
                (pc = "skip" /\ next_header = U64Zero /\ data_left' = U64Zero)
          /\ (pc # "idle" /\ next_header' # next_header) =>
                (pc = "skip" /\ pos' - pos \in 1..BLOCK
                 /\ U64MulAdd(next_header', 1, pos' - pos)
                      = [v |-> next_header, carry |-> FALSE])]_vars

\* A read returned part of a body: both counters are lower by the bytes
\* returned and bytes of the body remain.
C15_Witness ==
    /\ pc = "idle"
    /\ res.op = "read" /\ res.kind = "ok" /\ res.n > 0
    /\ last # NoEntry /\ got = res.n
    /\ data_left # U64Zero
    /\ U64MulAdd(data_left, 1, got).v = last.size

\* C16: once next has returned Ok(None), the call after it returns Ok(None)
\* if it is a next whose source reads succeed, and 0 bytes if it is a read.
C16_EndOfArchiveIsTerminal ==
    [][(res.op = "next" /\ res.kind = "none") =>
          /\ res'.op = "next" => res'.kind \in {"none", "io_err"}
          /\ (res'.op = "read" /\ res'.kind = "ok") => res'.n = 0]_vars

\* C17: once next has failed with an unexpected end of archive, the next
\* call after it returns neither an entry nor Ok(None).
C17_TruncationIsHardStop ==
    [][(res.op = "next" /\ res.kind = "unexpected_eof") =>
          (res'.op = "next" => res'.kind \notin {"entry", "none"})]_vars

\* C18: when next has returned an entry of size n, data_left is n and
\* next_header is blocks(n) * 512 unwrapped; and next does not panic on a
\* header whose size field decodes.
C18_OverflowIsError ==
    /\ (pc = "idle" /\ res.op = "next" /\ res.kind = "entry") =>
          /\ data_left = last.size
          /\ U64ModSmall(next_header, BLOCK) = 0
          /\ U64DivSmall(next_header, BLOCK) = blocks(last.size)
    /\ (pc = "panicked" /\ res.op = "next") =>
          DecodeHeader(HeaderAt(archive, pos - BLOCK)).kind = "panic"

\* What a next call that is to find its header block at offset at makes of
\* archive a when every source read delivers all the bytes asked for, and
\* where the call after it is to find its header block.
WholeReadNext(a, at) ==
    IF a.len < at THEN [kind |-> "unexpected_eof", then_at |-> at]
    ELSE IF a.len = at THEN [kind |-> "none", then_at |-> at]
    ELSE IF a.len < at + BLOCK THEN [kind |-> "unexpected_eof", then_at |-> a.len]
    ELSE LET header == HeaderAt(a, at)
             d == DecodeHeader(header)
         IN  IF d.kind = "entry"
             THEN [kind |-> "entry", then_at |-> at + BLOCK + U64ToInt(d.skip),
                   overflow |-> d.carry,
                   entry |-> [off |-> at, path |-> path(header), size |-> d.size,
                              typeflag |-> header.typeflag]]
             ELSE [kind |-> d.kind, then_at |-> at + BLOCK]

\* C19: while no source read has failed, what a next call returns, where
\* the call after it will look for its header, and which bytes of the
\* source read hands out are fixed by the archive and the calls made, not
\* by how many bytes each source read delivered.
C19_PartialReadIndependence ==
    (errs = 0 /\ pc \in {"idle", "panicked"} /\ hdr_at >= 0) =>
        LET w == WholeReadNext(archive, hdr_at)
        IN  /\ res.op = "next" =>
                 \/ res.kind = w.kind
                 \/ w.kind = "entry" /\ w.overflow /\ res.kind = "panic"
            /\ last # NoEntry => (w.kind = "entry" /\ last = w.entry)
            /\ (last = NoEntry /\ pc = "idle") => w.kind # "entry"
            /\ pc = "idle" => pos + U64ToInt(next_header) = w.then_at
            /\ (pc = "idle" /\ last # NoEntry) =>
                 /\ pos = last.off + BLOCK + got
                 /\ U64MulAdd(data_left, 1, got) = [v |-> last.size, carry |-> FALSE]

\* A body is being read through a source that delivers fewer bytes than
\* asked for: the last read returned 100 bytes, reads before it returned
\* others.
C19_Witness ==
    /\ errs = 0 /\ pc = "idle"
    /\ last # NoEntry
    /\ res.op = "read" /\ res.kind = "ok" /\ res.n = 100
    /\ got > res.n

\* C20: a call of next comes to an end; an iteration of the skip loop
\* lowers next_header or leaves next, and an iteration of the fill loop
\* raises bytes_read, to 512 at most, or leaves next.
C20_NextTerminates ==
    /\ (pc \in {"skip", "fill"}) ~> (pc \in {"idle", "panicked"})
    /\ [][(pc = "skip" /\ next_header # U64Zero) =>
             \/ pc' = "idle"
             \/ next_header' # next_header /\ U64Le(next_header', next_header)]_vars
    /\ [][(pc \in {"skip", "fill"} /\ pc' = "fill") =>
             (bytes_read < bytes_read' /\ bytes_read' <= BLOCK)]_vars

\* After an entry was returned, the following call of next has been through
\* its skip loop and through more than one read of the header block, which
\* is not yet full.
C20_Witness ==
    /\ pc = "fill"
    /\ last # NoEntry
    /\ bytes_read > 100 /\ bytes_read < BLOCK

=============================================================================
